---- MODULE Spec2Model ----
(***************************************************************************)
(* A state-machine model of the cross-client messaging layer of            *)
(* src/src/modules/messaging.ts (envelope codec, handler tables,           *)
(* query/answer correlator, inbound dispatch hooks) together with the      *)
(* character registry of src/src/characters.ts that the inbound query      *)
(* handler consults.                                                       *)
(*                                                                         *)
(* One client (the local one, "Self") is modelled in full.  Its peers and  *)
(* the host transport are the environment: they may hand any envelope of   *)
(* a bounded universe to the two inbound hooks at any time.  Everything    *)
(* the client hands to the transport during one event is recorded in       *)
(* `sent`, every handler it invokes in `called`, every resolve/reject call *)
(* on a query promise in `settled`, and the event itself in `ev`.          *)
(***************************************************************************)
EXTENDS Integers, Sequences, FiniteSets, TLC

\* ------------------------------------------------------------------ bounds

\* Number of correlation ids sendQuery may issue in one behaviour of the
\* querying side (SpecQ).
MaxQueries == 2
\* Number of correlation ids sendQuery may issue in one behaviour in which
\* every operation of the module is interleaved (Spec).
MaxQueriesAll == 1
\* Number of reply closures of query handlers that are live at a time.
MaxReplyFns == 1
\* Number of correlation ids the proxy methods may issue in one behaviour
\* (SpecP).
MaxMethodQueries == 1

\* --------------------------------------------------------------- universe

\* Player.MemberNumber, the local client's own member id.
Self == 1
\* Member ids of the other participants.
Peers == {2, 3}
Members == {Self} \cup Peers
\* The `null` Target of a broadcast hidden message.
Null == 0

\* Correlation ids (uuidv4 strings, numbered in order of issue).
Ids == 1..MaxQueries
\* Opaque JSON payloads; "undefined" is the absent value.
Data == {"undefined", "R1"}
\* Query tags: one with a registered query handler, one without.
QueryTags == {"qKnown", "qUnknown"}
\* Beep tags other modules register.
BeepTags == {"beepKnown"}

\* A message of an envelope: a JS value, with the fields the handlers read
\* and the result of `typeof` on each of them.
MsgOf(isObj, idT, id, queryT, query, okT, ok, data) ==
    [isObject |-> isObj, idT |-> idT, id |-> id, queryT |-> queryT,
     query |-> query, okT |-> okT, ok |-> ok, data |-> data]
\* {id, query, data}
QueryMsg(id, query, data) ==
    MsgOf(TRUE, "string", id, "string", query, "undefined", FALSE, data)
\* {id, ok, data}
AnswerMsg(id, ok, data) ==
    MsgOf(TRUE, "string", id, "undefined", "", "boolean", ok, data)
\* A message that is no object (undefined, a string, ...).
NoMsg == MsgOf(FALSE, "undefined", 0, "undefined", "", "undefined", FALSE, "undefined")

\* The host's Character objects of one member: a member that leaves and
\* joins again may come back as the same object or as a new one.
Objects == {0, 1}
\* defaultBCXEffects: {Effect: []}
defaultBCXEffects == <<>>

\* A character proxy: the member number and the identity of the host
\* Character object it wraps, the variant, and its Effects.Effect list.
ProxyOf(n, player, object, effects) ==
    [MemberNumber |-> n, isPlayer |-> player, Character |-> object,
     Effects |-> effects]
\* A proxy as the constructor leaves it.
Proxy(n, player, object) == ProxyOf(n, player, object, defaultBCXEffects)
\* The null result of a lookup.
NoChar == Proxy(0, FALSE, 0)

\* A reply closure of the query handler: the id and sender it closed over.
ReplyFn(id, sender) == [id |-> id, sender |-> sender]
NoReply == ReplyFn(0, 0)

\* A promise returned by sendQuery.
Promise(st, v) == [st |-> st, v |-> v]
NoPromise == Promise("none", "undefined")

\* ------------------------------------------------------------------ state

VARIABLES
    firstTimeInit,          \* storage.firstTimeInit
    inRoom,                 \* ServerPlayerIsInChatRoom()
    ChatRoomCharacter,      \* member ids of the host's session member list
    currentRoomCharacters,  \* the registry: a sequence of proxies
    hiddenMessageHandlers,  \* tags of the hidden-message handler table
    hiddenBeepHandlers,     \* tags of the beep handler table
    queryHandlers,          \* tags of the query handler table
    changeHandlers,         \* the change subscribers, in registration order
    pendingQueries,         \* id -> IPendingQuery
    timers,                 \* id -> "none" | "armed" | "cleared" | "fired"
    promises,               \* id -> the promise sendQuery returned for it
    nextId,                 \* the next correlation id uuidv4 yields
    settleCalls,            \* id -> how often its resolve or reject was called
    replyFns,               \* reply closures query handlers still hold
    ev,                     \* the last event and its inputs
    sent,                   \* ServerSend calls of the last event
    called,                 \* handler invocations of the last event
    settled,                \* resolve/reject calls of the last event
    ret,                    \* the promise the last sendQuery call returned
    returned,               \* the proxies the last registry call returned
    removed,                \* the proxies the last registry call spliced out
    moduleInitPhase,        \* the module manager's lifecycle phase
    roomObject,             \* member id -> the Character object the host holds
    queryMethod             \* id -> the proxy method that issued the query

env == <<firstTimeInit, inRoom, ChatRoomCharacter>>
tables == <<hiddenMessageHandlers, hiddenBeepHandlers, queryHandlers, changeHandlers>>
correlator == <<pendingQueries, timers, promises, nextId, settleCalls>>
outputs == <<sent, called, settled, ret, returned, removed>>
\* What the messaging operations never write.
rest == <<moduleInitPhase, roomObject, queryMethod>>
vars == <<env, tables, correlator, currentRoomCharacters, replyFns, ev, outputs,
          rest>>

\* --------------------------------------------------- the envelope codec

\* ServerSend("ChatRoomChat", {Content: "BCXMsg", Type: "Hidden", Target,
\* Dictionary: {type, message}})
ChatRoomChat(type, message, Target) ==
    [call |-> "ChatRoomChat", Content |-> "BCXMsg", Type |-> "Hidden",
     Target |-> Target, BeepType |-> "", type |-> type, message |-> message]

\* ServerSend("AccountBeep", {MemberNumber, BeepType, Message: {BCX: {type,
\* message}}})
AccountBeep(type, message, target, BeepType) ==
    [call |-> "AccountBeep", Content |-> "", Type |-> "",
     Target |-> target, BeepType |-> BeepType, type |-> type, message |-> message]

\* sendHiddenMessage without the session and initialization guard.
sendHiddenMessage_NoGuard(type, message, Target) ==
    <<ChatRoomChat(type, message, Target)>>

\* sendHiddenMessage: the ServerSend calls it makes.
sendHiddenMessage(type, message, Target) ==
    IF ~inRoom \/ firstTimeInit
    THEN <<>>
    ELSE <<ChatRoomChat(type, message, Target)>>

\* sendHiddenBeep: the ServerSend calls it makes.
sendHiddenBeep(type, message, target, asLeashBeep) ==
    <<AccountBeep(type, message, target, IF asLeashBeep THEN "Leash" ELSE "BCX")>>

\* ----------------------------------------------------------- the registry

\* cleanOldCharacters that splices nothing out.
cleanOldCharacters_KeepAll(cache) ==
    cache

\* cleanOldCharacters: the registry with the departed non-player proxies
\* spliced out.
cleanOldCharacters(cache) ==
    SelectSeq(cache, LAMBDA c :
        \/ c.isPlayer
        \/ /\ c.MemberNumber \in ChatRoomCharacter
           /\ c.Character = roomObject[c.MemberNumber])

\* currentRoomCharacters.find(c => c.Character.MemberNumber === memberNumber)
FindCharacter(cache, memberNumber) ==
    IF \E i \in 1..Len(cache) : cache[i].MemberNumber = memberNumber
    THEN cache[CHOOSE i \in 1..Len(cache) :
                 /\ cache[i].MemberNumber = memberNumber
                 /\ \A j \in 1..(i - 1) : cache[j].MemberNumber # memberNumber]
    ELSE NoChar

\* getChatroomCharacter that looks the proxy up first and cleans the
\* registry on a miss only.
getChatroomCharacterFrom_CleanOnMiss(cache, memberNumber) ==
    LET found == FindCharacter(cache, memberNumber)
        cleaned == cleanOldCharacters(cache)
        character ==
            IF found # NoChar THEN found
            ELSE IF Self = memberNumber THEN Proxy(Self, TRUE, roomObject[Self])
            ELSE IF memberNumber \in ChatRoomCharacter
            THEN Proxy(memberNumber, FALSE, roomObject[memberNumber])
            ELSE NoChar
    IN  [character |-> character,
         cache |-> IF found # NoChar THEN cache
                   ELSE IF character = NoChar THEN cleaned
                   ELSE Append(cleaned, character)]

\* getChatroomCharacter run on the registry `cache`: the proxy it returns
\* (NoChar for null) and the registry it leaves behind.
getChatroomCharacterFrom(cache, memberNumber) ==
    LET cleaned == cleanOldCharacters(cache)
        found == FindCharacter(cleaned, memberNumber)
        character ==
            IF found # NoChar THEN found
            ELSE IF Self = memberNumber THEN Proxy(Self, TRUE, roomObject[Self])
            ELSE IF memberNumber \in ChatRoomCharacter
            THEN Proxy(memberNumber, FALSE, roomObject[memberNumber])
            ELSE NoChar
    IN  [character |-> character,
         cache |-> IF found # NoChar \/ character = NoChar THEN cleaned
                   ELSE Append(cleaned, character)]

\* getChatroomCharacter: the proxy it returns (NoChar for null) ...
getChatroomCharacter(memberNumber) ==
    getChatroomCharacterFrom(currentRoomCharacters, memberNumber).character

\* ... and the registry it leaves behind.
getChatroomCharacterCache(memberNumber) ==
    getChatroomCharacterFrom(currentRoomCharacters, memberNumber).cache

\* The proxies of `cache` that are no longer in `after`.
Spliced(cache, after) ==
    SelectSeq(cache, LAMBDA c :
        \A i \in 1..Len(after) :
            \/ after[i].MemberNumber # c.MemberNumber
            \/ after[i].Character # c.Character)

\* c.Character === Player
WrapsPlayer(c) == c.MemberNumber = Self /\ c.Character = roomObject[Self]

\* getPlayerCharacter that never looks the self proxy up.
getPlayerCharacterFrom_AlwaysNew(cache) ==
    [character |-> Proxy(Self, TRUE, roomObject[Self]),
     cache |-> Append(cache, Proxy(Self, TRUE, roomObject[Self]))]

\* getPlayerCharacter run on the registry `cache`: the self proxy it returns
\* and the registry it leaves behind.  It does not clean the registry.
getPlayerCharacterFrom(cache) ==
    IF \E i \in 1..Len(cache) : WrapsPlayer(cache[i])
    THEN [character |-> cache[CHOOSE i \in 1..Len(cache) :
                               /\ WrapsPlayer(cache[i])
                               /\ \A j \in 1..(i - 1) : ~WrapsPlayer(cache[j])],
          cache |-> cache]
    ELSE [character |-> Proxy(Self, TRUE, roomObject[Self]),
          cache |-> Append(cache, Proxy(Self, TRUE, roomObject[Self]))]

\* The host's ChatRoomCharacter array, as the member numbers in it.
RECURSIVE MemberList(_)
MemberList(members) ==
    IF members = {} THEN <<>>
    ELSE LET m == CHOOSE x \in members : \A y \in members : x <= y
         IN  <<m>> \o MemberList(members \ {m})

\* ChatRoomCharacter.map(c => getChatroomCharacter(c.MemberNumber)).filter(Boolean)
\* over the members `list`, starting from the registry `cache`.
RECURSIVE MapGetChatroomCharacter(_, _)
MapGetChatroomCharacter(cache, list) ==
    IF list = <<>> THEN [characters |-> <<>>, cache |-> cache]
    ELSE LET first == getChatroomCharacterFrom(cache, Head(list))
             others == MapGetChatroomCharacter(first.cache, Tail(list))
         IN  [characters |-> (IF first.character = NoChar THEN <<>>
                              ELSE <<first.character>>) \o others.characters,
              cache |-> others.cache]

\* getAllCharactersInRoom without the check for a session.
getAllCharactersInRoom_NoSessionCheck ==
    MapGetChatroomCharacter(currentRoomCharacters, MemberList(ChatRoomCharacter))

\* getAllCharactersInRoom: the proxies it returns and the registry it
\* leaves behind.
getAllCharactersInRoom ==
    IF ~inRoom
    THEN LET player == getPlayerCharacterFrom(currentRoomCharacters)
         IN  [characters |-> <<player.character>>, cache |-> player.cache]
    ELSE MapGetChatroomCharacter(currentRoomCharacters, MemberList(ChatRoomCharacter))

\* --------------------------------------------------------- the correlator

\* IPendingQuery: the target, the promise whose resolve and reject it holds,
\* and the timer handle.
PendingQuery(target, id) ==
    [target |-> target, resolve |-> id, reject |-> id, timeout |-> id]

\* map.delete(id) that removes nothing.
MapDelete_Nothing(map, id) ==
    map

\* map.delete(id)
MapDelete(map, id) == [i \in DOMAIN map \ {id} |-> map[i]]

\* A call of resolve or reject of the promise of query `id`.
Settle(id, kind, v) == [id |-> id, kind |-> kind, v |-> v]

\* The promises after the resolve/reject calls `calls`, made in order: a
\* promise takes the first settlement and ignores the later ones.
RECURSIVE ApplySettles(_, _)
ApplySettles(ps, calls) ==
    IF calls = <<>> THEN ps
    ELSE LET c == Head(calls)
             next == IF ps[c.id].st = "pending"
                     THEN [ps EXCEPT ![c.id] =
                               Promise(IF c.kind = "resolve" THEN "resolved" ELSE "rejected", c.v)]
                     ELSE ps
         IN  ApplySettles(next, Tail(calls))

\* clearTimeout(handle)
clearTimeout(ts, handle) ==
    IF ts[handle] = "armed" THEN [ts EXCEPT ![handle] = "cleared"] ELSE ts

\* The structural check of an inbound query message.
QueryValid(message) ==
    message.isObject /\ message.idT = "string" /\ message.queryT = "string"

\* The structural check of an inbound answer message.
AnswerValid(message) ==
    message.isObject /\ message.idT = "string" /\ message.okT = "boolean"

\* The origin check of an answer comparing the target with the sender.
AnswerNotFromTarget_Sender(info, sender) ==
    info.target # sender

\* The origin check of an answer, as written: info.target !== info.target.
AnswerNotFromTarget(info, sender) == info.target # info.target

\* A handler invocation: the table the handler is in, its tag, and its
\* arguments (a sender id or a sender proxy, a reply closure, a query
\* payload).  The message a table handler is given is not logged: what the
\* handler does with it is.
Call(table, tag, sender, proxy, reply, data) ==
    [table |-> table, tag |-> tag, sender |-> sender, proxy |-> proxy,
     reply |-> reply, data |-> data, after |-> 0]
\* The invocations `calls`, made after `n` ServerSend calls were issued in
\* the same run.
After(calls, n) == [i \in 1..Len(calls) |-> [calls[i] EXCEPT !.after = n]]

\* The last event: the operation, the member it names (a sender or a target,
\* 0 for none), the envelope tag it carries ("" for none), its message and
\* what the access check would answer.
Event(op, who, tag, message, access) ==
    [op |-> op, who |-> who, tag |-> tag, message |-> message, access |-> access]
\* An event that carries no message.
Plain(op, who, tag) == Event(op, who, tag, NoMsg, FALSE)

\* What one handler run does: the maps and the registry it leaves, and what
\* it sends, invokes and settles.
NoEffect ==
    [pendingQueries |-> pendingQueries, timers |-> timers,
     currentRoomCharacters |-> currentRoomCharacters, replyFns |-> replyFns,
     sent |-> <<>>, called |-> <<>>, settled |-> <<>>]

\* timeoutCallback with the delete of the pending entry left out.
timeoutCallback_NoDelete(id) ==
    [NoEffect EXCEPT
        !.timers = [timers EXCEPT ![id] = "fired"],
        !.settled = <<Settle(id, "reject", "Timed out")>>]

\* timeoutCallback clearing the whole map instead of deleting its own entry.
timeoutCallback_ClearAll(id) ==
    [NoEffect EXCEPT
        !.pendingQueries = <<>>,
        !.timers = [timers EXCEPT ![id] = "fired"],
        !.settled = <<Settle(id, "reject", "Timed out")>>]

\* timeoutCallback that deletes the entry and does not reject.
timeoutCallback_NoReject(id) ==
    [NoEffect EXCEPT
        !.pendingQueries = MapDelete(pendingQueries, id),
        !.timers = [timers EXCEPT ![id] = "fired"]]

\* The timeout callback sendQuery arms for query `id`.
timeoutCallback(id) ==
    [NoEffect EXCEPT
        !.pendingQueries = MapDelete(pendingQueries, id),
        !.timers = [timers EXCEPT ![id] = "fired"],
        !.settled = <<Settle(id, "reject", "Timed out")>>]

\* queryHandler returning without an answer when the access check fails.
queryHandler_SilentDrop(sender, message, access) ==
    IF ~QueryValid(message) THEN NoEffect
    ELSE LET character == getChatroomCharacter(sender)
             cache == getChatroomCharacterCache(sender)
         IN  IF character = NoChar \/ ~access
             THEN [NoEffect EXCEPT !.currentRoomCharacters = cache]
             ELSE IF message.query \notin queryHandlers
             THEN [NoEffect EXCEPT
                     !.currentRoomCharacters = cache,
                     !.sent = sendHiddenMessage("queryAnswer",
                                  AnswerMsg(message.id, FALSE, "undefined"), Null)]
             ELSE [NoEffect EXCEPT
                     !.currentRoomCharacters = cache,
                     !.replyFns = replyFns \cup {ReplyFn(message.id, sender)},
                     !.called = <<Call("query", message.query, sender, character,
                                       ReplyFn(message.id, sender), message.data)>>]

\* queryHandler returning without an answer when the tag has no handler.
queryHandler_NoHandlerDrop(sender, message, access) ==
    IF ~QueryValid(message) THEN NoEffect
    ELSE LET character == getChatroomCharacter(sender)
             cache == getChatroomCharacterCache(sender)
         IN  IF character = NoChar \/ ~access
             THEN [NoEffect EXCEPT
                     !.currentRoomCharacters = cache,
                     !.sent = sendHiddenMessage("queryAnswer",
                                  AnswerMsg(message.id, FALSE, "undefined"), Null)]
             ELSE IF message.query \notin queryHandlers
             THEN [NoEffect EXCEPT !.currentRoomCharacters = cache]
             ELSE [NoEffect EXCEPT
                     !.currentRoomCharacters = cache,
                     !.replyFns = replyFns \cup {ReplyFn(message.id, sender)},
                     !.called = <<Call("query", message.query, sender, character,
                                       ReplyFn(message.id, sender), message.data)>>]

\* queryHandler without the structural check of the message.
queryHandler_NoShapeCheck(sender, message, access) ==
    LET character == getChatroomCharacter(sender)
        cache == getChatroomCharacterCache(sender)
    IN  IF character = NoChar \/ ~access
        THEN [NoEffect EXCEPT
                !.currentRoomCharacters = cache,
                !.sent = sendHiddenMessage("queryAnswer",
                             AnswerMsg(message.id, FALSE, "undefined"), Null)]
        ELSE IF message.query \notin queryHandlers
        THEN [NoEffect EXCEPT
                !.currentRoomCharacters = cache,
                !.sent = sendHiddenMessage("queryAnswer",
                             AnswerMsg(message.id, FALSE, "undefined"), Null)]
        ELSE [NoEffect EXCEPT
                !.currentRoomCharacters = cache,
                !.replyFns = replyFns \cup {ReplyFn(message.id, sender)},
                !.called = <<Call("query", message.query, sender, character,
                                  ReplyFn(message.id, sender), message.data)>>]

\* hiddenMessageHandlers "query": the answering side.
queryHandler(sender, message, access) ==
    IF ~QueryValid(message) THEN NoEffect
    ELSE LET character == getChatroomCharacter(sender)
             cache == getChatroomCharacterCache(sender)
         IN  IF character = NoChar \/ ~access
             THEN [NoEffect EXCEPT
                     !.currentRoomCharacters = cache,
                     !.sent = sendHiddenMessage("queryAnswer",
                                  AnswerMsg(message.id, FALSE, "undefined"), Null)]
             ELSE IF message.query \notin queryHandlers
             THEN [NoEffect EXCEPT
                     !.currentRoomCharacters = cache,
                     !.sent = sendHiddenMessage("queryAnswer",
                                  AnswerMsg(message.id, FALSE, "undefined"), Null)]
             ELSE [NoEffect EXCEPT
                     !.currentRoomCharacters = cache,
                     !.replyFns = replyFns \cup {ReplyFn(message.id, sender)},
                     !.called = <<Call("query", message.query, sender, character,
                                       ReplyFn(message.id, sender), message.data)>>]

\* The reply closure the query handler passes on: (ok, data) =>
\* sendHiddenMessage("queryAnswer", {id, ok, data}, sender).
replyFnBody(fn, ok, data) ==
    sendHiddenMessage("queryAnswer", AnswerMsg(fn.id, ok, data), fn.sender)

\* queryAnswerHandler calling resolve without the answer's data.
queryAnswerHandler_ResolveBare(sender, message) ==
    IF ~AnswerValid(message) THEN NoEffect
    ELSE IF message.id \notin DOMAIN pendingQueries THEN NoEffect
    ELSE LET info == pendingQueries[message.id]
         IN  [NoEffect EXCEPT
                 !.timers = clearTimeout(timers, info.timeout),
                 !.pendingQueries = MapDelete(pendingQueries, message.id),
                 !.settled = IF message.ok
                             THEN <<Settle(info.resolve, "resolve", "undefined")>>
                             ELSE <<Settle(info.reject, "reject", message.data)>>]

\* queryAnswerHandler with the delete of the pending entry left out.
queryAnswerHandler_NoDelete(sender, message) ==
    IF ~AnswerValid(message) THEN NoEffect
    ELSE IF message.id \notin DOMAIN pendingQueries THEN NoEffect
    ELSE LET info == pendingQueries[message.id]
         IN  [NoEffect EXCEPT
                 !.timers = clearTimeout(timers, info.timeout),
                 !.settled = IF message.ok
                             THEN <<Settle(info.resolve, "resolve", message.data)>>
                             ELSE <<Settle(info.reject, "reject", message.data)>>]

\* queryAnswerHandler with the clearTimeout call left out.
queryAnswerHandler_NoClear(sender, message) ==
    IF ~AnswerValid(message) THEN NoEffect
    ELSE IF message.id \notin DOMAIN pendingQueries THEN NoEffect
    ELSE LET info == pendingQueries[message.id]
         IN  [NoEffect EXCEPT
                 !.pendingQueries = MapDelete(pendingQueries, message.id),
                 !.settled = IF message.ok
                             THEN <<Settle(info.resolve, "resolve", message.data)>>
                             ELSE <<Settle(info.reject, "reject", message.data)>>]

\* hiddenMessageHandlers "queryAnswer": the querying side.
queryAnswerHandler(sender, message) ==
    IF ~AnswerValid(message) THEN NoEffect
    ELSE IF message.id \notin DOMAIN pendingQueries THEN NoEffect
    ELSE LET info == pendingQueries[message.id]
         IN  IF AnswerNotFromTarget(info, sender) THEN NoEffect
             ELSE [NoEffect EXCEPT
                     !.timers = clearTimeout(timers, info.timeout),
                     !.pendingQueries = MapDelete(pendingQueries, message.id),
                     !.settled = IF message.ok
                                 THEN <<Settle(info.resolve, "resolve", message.data)>>
                                 ELSE <<Settle(info.reject, "reject", message.data)>>]

\* changeHandlers.forEach(h => h(source))
CallChangeHandlers(source) ==
    [i \in 1..Len(changeHandlers) |->
        Call("change", changeHandlers[i], source, NoChar, NoReply, "undefined")]

\* somethingChangedHandler naming the local client as the origin.
somethingChangedHandler_SelfOrigin(sender) ==
    [NoEffect EXCEPT !.called = CallChangeHandlers(Self)]

\* hiddenMessageHandlers "somethingChanged".
somethingChangedHandler(sender) ==
    [NoEffect EXCEPT !.called = CallChangeHandlers(sender)]

\* notifyOfChange invoking the subscribers before it issues the broadcast.
notifyOfChange_SubscribersFirst ==
    IF moduleInitPhase # "ready" THEN NoEffect
    ELSE LET broadcast == sendHiddenMessage("somethingChanged", NoMsg, Null)
             player == getPlayerCharacterFrom(currentRoomCharacters)
         IN  [NoEffect EXCEPT
                 !.sent = broadcast,
                 !.currentRoomCharacters = player.cache,
                 !.called = After(CallChangeHandlers(player.character.MemberNumber), 0)]

\* notifyOfChange: the broadcast, then the local subscribers.
notifyOfChange ==
    IF moduleInitPhase # "ready" THEN NoEffect
    ELSE LET broadcast == sendHiddenMessage("somethingChanged", NoMsg, Null)
             player == getPlayerCharacterFrom(currentRoomCharacters)
         IN  [NoEffect EXCEPT
                 !.sent = broadcast,
                 !.currentRoomCharacters = player.cache,
                 !.called = After(CallChangeHandlers(player.character.MemberNumber),
                                  Len(broadcast))]

\* The registry `cache` with the Effects of the self proxy replaced.
SetPlayerEffects(cache, effects) ==
    [i \in 1..Len(cache) |->
        IF WrapsPlayer(cache[i]) /\ \A j \in 1..(i - 1) : ~WrapsPlayer(cache[j])
        THEN [cache[i] EXCEPT !.Effects = effects]
        ELSE cache[i]]

\* buildPlayerEffects without the comparison with the installed record.
buildPlayerEffects_AlwaysInstall(effects) ==
    LET player == getPlayerCharacterFrom(currentRoomCharacters)
    IN  [NoEffect EXCEPT
            !.currentRoomCharacters = SetPlayerEffects(player.cache, effects),
            !.called = <<Call("host", "CharacterRefresh", Self, NoChar, NoReply,
                              "undefined"),
                         Call("chatroom", "announceSelf", Self, NoChar, NoReply,
                              "undefined")>>]

\* buildPlayerEffects; `effects` is the record the effect builders left.
buildPlayerEffects(effects) ==
    LET player == getPlayerCharacterFrom(currentRoomCharacters)
    IN  IF effects = player.character.Effects
        THEN [NoEffect EXCEPT !.currentRoomCharacters = player.cache]
        ELSE [NoEffect EXCEPT
                !.currentRoomCharacters = SetPlayerEffects(player.cache, effects),
                !.called = <<Call("host", "CharacterRefresh", Self, NoChar, NoReply,
                                  "undefined"),
                             Call("chatroom", "announceSelf", Self, NoChar, NoReply,
                                  "undefined")>>]

\* ------------------------------------------------------ the proxy methods

\* JS values that answers and arguments carry, by their source text.
Values == {"true", "3", "oops", "[[1000,2,3,null]]"}

\* typeof v
TypeOf(v) ==
    CASE v \in {"true", "false"} -> "boolean"
      [] v = "3" -> "number"
      [] v = "undefined" -> "undefined"
      [] v = "[[1000,2,3,null]]" -> "object"
      [] OTHER -> "string"

\* Array.isArray(data) && data.every(e => Array.isArray(e) && e.length === 4
\* && typeof e[0] === "number" && ...)
IsLogEntries(v) == v = "[[1000,2,3,null]]"

\* The methods of the proxy that are modelled, and the query each sends.
Methods == {"getPermissionAccess", "setPermission", "getLogEntries"}
MethodQuery(method) ==
    CASE method = "getPermissionAccess" -> "permissionAccess"
      [] method = "setPermission" -> "editPermission"
      [] method = "getLogEntries" -> "logData"
      [] OTHER -> ""

\* The check a method's `then` callback makes on the data of the answer.
ShapeOk(method, data) ==
    CASE method = "getPermissionAccess" -> TypeOf(data) = "boolean"
      [] method = "setPermission" -> TypeOf(data) = "boolean"
      [] method = "getLogEntries" -> IsLogEntries(data)
      [] OTHER -> TRUE

\* promise.catch(err => false) where the method has one: only
\* getPermissionAccess does.
Catch(method, promise) ==
    IF method = "getPermissionAccess" /\ promise.st = "rejected"
    THEN Promise("resolved", "false")
    ELSE promise

\* The promise a method returns, given the promise of its sendQuery call:
\* sendQuery(...).then(data => { if (<bad shape>) throw new Error("Bad
\* data"); return data; }), followed by the method's catch if it has one.
Then(method, promise) ==
    IF method \notin Methods THEN promise
    ELSE IF promise.st = "resolved"
    THEN IF ShapeOk(method, promise.v) THEN promise
         ELSE Catch(method, Promise("rejected", "Bad data"))
    ELSE Catch(method, promise)

\* The payload of the editPermission query: {permission, edit, target}.
EditPermission(edit, target) ==
    CASE edit = "self" /\ target = "true" -> "{permission,self,true}"
      [] edit = "self" /\ target = "3" -> "{permission,self,3}"
      [] edit = "min" /\ target = "true" -> "{permission,min,true}"
      [] edit = "min" /\ target = "3" -> "{permission,min,3}"
      [] OTHER -> "{permission,?,?}"

\* The shape the value of setPermission must have for the axis `edit`.
TargetShapeOk(edit, target) ==
    IF edit = "self" THEN TypeOf(target) = "boolean"
    ELSE TypeOf(target) = "number"

\* ---------------------------------------------------- the inbound hooks

\* args[0] of the host's ChatRoomMessage, with the fields the hook reads.
HiddenData(Type, Content, SenderT, Sender, DictIsObject, typeT, type, message) ==
    [Type |-> Type, Content |-> Content, SenderT |-> SenderT, Sender |-> Sender,
     DictIsObject |-> DictIsObject, typeT |-> typeT, type |-> type,
     message |-> message]

\* args[0] of the host's ServerAccountBeep, with the fields the hook reads.
BeepData(BeepTypeT, BeepType, MemberNumber, BCXIsObject, typeT, type, message) ==
    [BeepTypeT |-> BeepTypeT, BeepType |-> BeepType, MemberNumber |-> MemberNumber,
     BCXIsObject |-> BCXIsObject, typeT |-> typeT, type |-> type,
     message |-> message]

\* The ChatRoomMessage hook looking the tag up in both handler tables.
ChatRoomMessageDispatch_AnyTable(data) ==
    IF data.Type = "Hidden" /\ data.Content = "BCXMsg" /\ data.SenderT = "number"
    THEN IF data.Sender = Self \/ firstTimeInit THEN ""
         ELSE IF ~data.DictIsObject THEN ""
         ELSE IF data.typeT = "string"
                 /\ data.type \in hiddenMessageHandlers \cup hiddenBeepHandlers
              THEN data.type
              ELSE ""
    ELSE ""

\* The ChatRoomMessage hook: the tag of the hidden-message handler it
\* invokes, "" when it invokes none (the envelope is not BCX's and goes to
\* next(args), or it is ignored or dropped).
ChatRoomMessageDispatch(data) ==
    IF data.Type = "Hidden" /\ data.Content = "BCXMsg" /\ data.SenderT = "number"
    THEN IF data.Sender = Self \/ firstTimeInit THEN ""
         ELSE IF ~data.DictIsObject THEN ""
         ELSE IF data.typeT = "string" /\ data.type \in hiddenMessageHandlers
              THEN data.type
              ELSE ""
    ELSE ""

\* The ServerAccountBeep hook: the tag of the beep handler it invokes, ""
\* when it invokes none.
ServerAccountBeepDispatch(data) ==
    IF data.BeepTypeT = "string" /\ data.BeepType \in {"Leash", "BCX"} /\ data.BCXIsObject
    THEN IF data.typeT = "string" /\ data.type \in hiddenBeepHandlers
         THEN data.type
         ELSE ""
    ELSE ""

\* The handler of the hidden-message table registered under `tag`, run on
\* (sender, message).
RunHiddenHandler(tag, sender, message, access) ==
    LET eff == CASE tag = "query" -> queryHandler(sender, message, access)
                 [] tag = "queryAnswer" -> queryAnswerHandler(sender, message)
                 [] tag = "somethingChanged" -> somethingChangedHandler(sender)
                 [] OTHER -> NoEffect
    IN  [eff EXCEPT !.called =
            <<Call("hidden", tag, sender, NoChar, NoReply, "undefined")>> \o @]

\* ------------------------------------------------------------ the inputs

\* A correlation id sendQuery never issued.
ForeignId == MaxQueries + 1

WellFormedHidden(sender, type, message) ==
    HiddenData("Hidden", "BCXMsg", "number", sender, TRUE, "string", type, message)

InboundQueryMsgs ==
    {QueryMsg(1, q, "R1") : q \in QueryTags}
    \cup {NoMsg,
          [QueryMsg(1, "qKnown", "R1") EXCEPT !.idT = "number"],
          [QueryMsg(1, "qKnown", "R1") EXCEPT !.queryT = "undefined"]}

InboundAnswerMsgs ==
    {AnswerMsg(i, ok, d) : i \in Ids \cup {ForeignId}, ok \in BOOLEAN, d \in Data}
    \cup {NoMsg,
          [AnswerMsg(1, TRUE, "R1") EXCEPT !.idT = "number"],
          [AnswerMsg(1, TRUE, "R1") EXCEPT !.okT = "undefined"]}

\* Envelopes tagged "queryAnswer".
AnswerInputs ==
    {WellFormedHidden(s, "queryAnswer", m) : s \in Peers, m \in InboundAnswerMsgs}

\* A few of them: one answer of each kind and the refusal the answering
\* side emits, from one sender.
AnswerInputsAll ==
    {WellFormedHidden(2, "queryAnswer", m) :
        m \in {AnswerMsg(i, ok, "R1") : i \in {1, ForeignId}, ok \in BOOLEAN}
              \cup {AnswerMsg(1, FALSE, "undefined")}
              \cup (InboundAnswerMsgs \ {AnswerMsg(i, ok, d) :
                        i \in Ids \cup {ForeignId}, ok \in BOOLEAN, d \in Data})}

\* Envelopes tagged "query".
QueryInputs ==
    {WellFormedHidden(s, "query", m) : s \in Peers, m \in InboundQueryMsgs}

\* Envelopes with another tag, envelopes the local client sent itself, and
\* envelopes that are not BCX's or are malformed on the outside.
OtherInputs ==
    {WellFormedHidden(s, t, NoMsg) :
        s \in Peers, t \in {"somethingChanged", "beepKnown", "unknownTag"}}
    \cup {WellFormedHidden(Self, "query", QueryMsg(1, "qKnown", "R1")),
          WellFormedHidden(Self, "queryAnswer", AnswerMsg(1, TRUE, "R1")),
          WellFormedHidden(Self, "somethingChanged", NoMsg)}
    \cup {[WellFormedHidden(2, "queryAnswer", AnswerMsg(1, TRUE, "R1")) EXCEPT !.Type = "Chat"],
          [WellFormedHidden(2, "queryAnswer", AnswerMsg(1, TRUE, "R1")) EXCEPT !.Content = "Other"],
          [WellFormedHidden(2, "queryAnswer", AnswerMsg(1, TRUE, "R1")) EXCEPT !.SenderT = "undefined"],
          [WellFormedHidden(2, "queryAnswer", AnswerMsg(1, TRUE, "R1")) EXCEPT !.DictIsObject = FALSE],
          [WellFormedHidden(2, "queryAnswer", AnswerMsg(1, TRUE, "R1")) EXCEPT !.typeT = "number"]}

\* What the host may hand to the ChatRoomMessage hook.
NonAnswerInputs == QueryInputs \cup OtherInputs
HiddenInputs == AnswerInputs \cup NonAnswerInputs

WellFormedBeep(sender, BeepType, type) ==
    BeepData("string", BeepType, sender, TRUE, "string", type, NoMsg)

\* What the host may hand to the ServerAccountBeep hook.
BeepInputs ==
    {WellFormedBeep(s, "BCX", t) :
        s \in {Self, 2}, t \in {"beepKnown", "query", "unknownTag"}}
    \cup {WellFormedBeep(2, "Leash", "beepKnown"),
          WellFormedBeep(2, "Other", "beepKnown"),
          [WellFormedBeep(2, "BCX", "beepKnown") EXCEPT !.BeepTypeT = "undefined"],
          [WellFormedBeep(2, "BCX", "beepKnown") EXCEPT !.BCXIsObject = FALSE],
          [WellFormedBeep(2, "BCX", "beepKnown") EXCEPT !.typeT = "number"]}

\* The (type, message) pairs other modules pass to sendHiddenMessage.
DirectMessages ==
    {<<"somethingChanged", NoMsg>>, <<"queryAnswer", AnswerMsg(1, TRUE, "R1")>>}

\* ------------------------------------------------------------------- Init

InitBase ==
    /\ firstTimeInit \in BOOLEAN
    /\ inRoom = FALSE
    /\ ChatRoomCharacter = {}
    /\ currentRoomCharacters = <<>>
    /\ hiddenMessageHandlers = {"query", "queryAnswer", "somethingChanged"}
    /\ hiddenBeepHandlers = BeepTags
    /\ queryHandlers = {"qKnown"}
    /\ changeHandlers = <<"subA", "subB">>
    /\ pendingQueries = <<>>
    /\ timers = [i \in Ids |-> "none"]
    /\ promises = [i \in Ids |-> NoPromise]
    /\ settleCalls = [i \in Ids |-> 0]
    /\ nextId = 1
    /\ replyFns = {}
    /\ ev = Plain("init", 0, "")
    /\ sent = <<>>
    /\ called = <<>>
    /\ settled = <<>>
    /\ ret = NoPromise
    /\ returned = <<>>
    /\ removed = <<>>
    /\ roomObject = [m \in Members |-> 0]
    /\ queryMethod = [i \in Ids |-> ""]

\* The module system is in its steady phase.
Init == InitBase /\ moduleInitPhase = "ready"

\* ---------------------------------------------------------------- actions

\* The state one handler run leaves.
Apply(eff) ==
    /\ pendingQueries' = eff.pendingQueries
    /\ timers' = eff.timers
    /\ promises' = ApplySettles(promises, eff.settled)
    /\ settleCalls' = [i \in Ids |->
            settleCalls[i] + Cardinality({k \in 1..Len(eff.settled) : eff.settled[k].id = i})]
    /\ currentRoomCharacters' = eff.currentRoomCharacters
    /\ replyFns' = eff.replyFns
    /\ sent' = eff.sent
    /\ called' = eff.called
    /\ settled' = eff.settled

\* sendQuery with the firstTimeInit check left out.
SendQuery_NoInitCheck(type, data, target, cap) ==
    /\ ev' = Event("sendQuery", target, "query", QueryMsg(0, type, data), FALSE)
    /\ nextId <= cap
    /\ LET id == nextId
       IN  /\ pendingQueries' = (id :> PendingQuery(target, id)) @@ pendingQueries
           /\ timers' = [timers EXCEPT ![id] = "armed"]
           /\ promises' = [promises EXCEPT ![id] = Promise("pending", "undefined")]
           /\ nextId' = id + 1
           /\ UNCHANGED settleCalls
           /\ sent' = sendHiddenMessage("query", QueryMsg(id, type, data), target)
           /\ ret' = Promise("pending", "undefined") /\ returned' = <<>> /\ removed' = <<>>
    /\ called' = <<>> /\ settled' = <<>>
    /\ UNCHANGED <<currentRoomCharacters, replyFns, env, tables, rest>>

\* The promise sendQuery returns, as it is when sendQuery returns.
sendQueryPromise ==
    IF firstTimeInit THEN Promise("rejected", "Unavailable during init")
    ELSE Promise("pending", "undefined")

\* sendQuery that sends its envelope with the default Target.
sendQueryRun_Broadcast(type, data, target, cap) ==
    /\ IF firstTimeInit
       THEN /\ sent' = <<>>
            /\ UNCHANGED correlator
       ELSE /\ nextId <= cap
            /\ LET id == nextId
               IN  /\ pendingQueries' = (id :> PendingQuery(target, id)) @@ pendingQueries
                   /\ timers' = [timers EXCEPT ![id] = "armed"]
                   /\ promises' = [promises EXCEPT ![id] = Promise("pending", "undefined")]
                   /\ nextId' = id + 1
                   /\ UNCHANGED settleCalls
                   /\ sent' = sendHiddenMessage("query", QueryMsg(id, type, data), Null)
    /\ called' = <<>> /\ settled' = <<>>
    /\ returned' = <<>> /\ removed' = <<>>
    /\ UNCHANGED <<currentRoomCharacters, replyFns>>

\* The run of sendQuery(type, data, target): what it leaves of the
\* correlator and what it sends; at most `cap` ids are issued.
sendQueryRun(type, data, target, cap) ==
    /\ IF firstTimeInit
       THEN /\ sent' = <<>>
            /\ UNCHANGED correlator
       ELSE /\ nextId <= cap
            /\ LET id == nextId
               IN  /\ pendingQueries' = (id :> PendingQuery(target, id)) @@ pendingQueries
                   /\ timers' = [timers EXCEPT ![id] = "armed"]
                   /\ promises' = [promises EXCEPT ![id] = Promise("pending", "undefined")]
                   /\ nextId' = id + 1
                   /\ UNCHANGED settleCalls
                   /\ sent' = sendHiddenMessage("query", QueryMsg(id, type, data), target)
    /\ called' = <<>> /\ settled' = <<>>
    /\ returned' = <<>> /\ removed' = <<>>
    /\ UNCHANGED <<currentRoomCharacters, replyFns>>

\* sendQuery(type, data, target), called by another module.
SendQuery(type, data, target, cap) ==
    /\ ev' = Event("sendQuery", target, "query", QueryMsg(0, type, data), FALSE)
    /\ sendQueryRun(type, data, target, cap)
    /\ ret' = sendQueryPromise
    /\ UNCHANGED <<env, tables, rest>>

\* The timer of query `id` fires.
TimerFire(id) ==
    /\ timers[id] = "armed"
    /\ ev' = Event("timer", 0, "", [NoMsg EXCEPT !.id = id], FALSE)
    /\ Apply(timeoutCallback(id))
    /\ ret' = NoPromise /\ returned' = <<>> /\ removed' = <<>>
    /\ UNCHANGED <<env, tables, rest, nextId>>

\* The host raises ChatRoomMessage; `access` is what the host's
\* ServerChatRoomGetAllowItem(sender, Player) answers if asked.
ChatRoomMessage(data, access) ==
    /\ inRoom
    /\ ev' = Event("ChatRoomMessage", data.Sender, data.type, data.message, access)
    /\ LET tag == ChatRoomMessageDispatch(data)
           eff == IF tag = "" THEN NoEffect
                  ELSE RunHiddenHandler(tag, data.Sender, data.message, access)
       IN  /\ Cardinality(eff.replyFns) <= MaxReplyFns
           /\ Apply(eff)
    /\ ret' = NoPromise /\ returned' = <<>> /\ removed' = <<>>
    /\ UNCHANGED <<env, tables, rest, nextId>>

\* The host raises ServerAccountBeep.
ServerAccountBeep(data) ==
    /\ ev' = Plain("ServerAccountBeep", data.MemberNumber, data.type)
    /\ LET tag == ServerAccountBeepDispatch(data)
       IN  called' = IF tag = "" THEN <<>>
                     ELSE <<Call("beep", tag, data.MemberNumber, NoChar, NoReply,
                                 "undefined")>>
    /\ sent' = <<>> /\ settled' = <<>> /\ ret' = NoPromise /\ returned' = <<>> /\ removed' = <<>>
    /\ UNCHANGED <<env, tables, rest, correlator, currentRoomCharacters, replyFns>>

\* A query handler calls the reply closure it was given; it may keep it and
\* call it again.
HandlerReply(fn, ok, data, keep) ==
    /\ fn \in replyFns
    /\ ev' = Event("reply", fn.sender, "queryAnswer", AnswerMsg(fn.id, ok, data), FALSE)
    /\ sent' = replyFnBody(fn, ok, data)
    /\ replyFns' = IF keep THEN replyFns ELSE replyFns \ {fn}
    /\ called' = <<>> /\ settled' = <<>> /\ ret' = NoPromise /\ returned' = <<>> /\ removed' = <<>>
    /\ UNCHANGED <<env, tables, rest, correlator, currentRoomCharacters>>

\* Another module calls sendHiddenMessage(type, message, Target).
CallSendHiddenMessage(type, message, Target) ==
    /\ ev' = Event("sendHiddenMessage", Target, type, message, FALSE)
    /\ sent' = sendHiddenMessage(type, message, Target)
    /\ called' = <<>> /\ settled' = <<>> /\ ret' = NoPromise /\ returned' = <<>> /\ removed' = <<>>
    /\ UNCHANGED <<env, tables, rest, correlator, currentRoomCharacters, replyFns>>

\* Another module calls sendHiddenBeep(type, message, target, asLeashBeep).
CallSendHiddenBeep(type, message, target, asLeashBeep) ==
    /\ ev' = Event("sendHiddenBeep", target, type, message, asLeashBeep)
    /\ sent' = sendHiddenBeep(type, message, target, asLeashBeep)
    /\ called' = <<>> /\ settled' = <<>> /\ ret' = NoPromise /\ returned' = <<>> /\ removed' = <<>>
    /\ UNCHANGED <<env, tables, rest, correlator, currentRoomCharacters, replyFns>>

\* Another module calls notifyOfChange().
NotifyOfChange ==
    /\ ev' = Plain("notifyOfChange", 0, "somethingChanged")
    /\ Apply(notifyOfChange)
    /\ ret' = NoPromise /\ returned' = <<>> /\ removed' = <<>>
    /\ UNCHANGED <<env, tables, rest, nextId>>

\* Another module calls getChatroomCharacter(memberNumber).
GetChatroomCharacter(memberNumber) ==
    /\ ev' = Plain("getChatroomCharacter", memberNumber, "")
    /\ LET r == getChatroomCharacterFrom(currentRoomCharacters, memberNumber)
       IN  /\ currentRoomCharacters' = r.cache
           /\ returned' = IF r.character = NoChar THEN <<>> ELSE <<r.character>>
           /\ removed' = Spliced(currentRoomCharacters, r.cache)
    /\ sent' = <<>> /\ called' = <<>> /\ settled' = <<>> /\ ret' = NoPromise
    /\ UNCHANGED <<env, tables, rest, correlator, replyFns>>

\* Another module calls getPlayerCharacter().
GetPlayerCharacter ==
    /\ ev' = Plain("getPlayerCharacter", Self, "")
    /\ LET r == getPlayerCharacterFrom(currentRoomCharacters)
       IN  /\ currentRoomCharacters' = r.cache
           /\ returned' = <<r.character>>
           /\ removed' = <<>>
    /\ sent' = <<>> /\ called' = <<>> /\ settled' = <<>> /\ ret' = NoPromise
    /\ UNCHANGED <<env, tables, rest, correlator, replyFns>>

\* Another module calls getAllCharactersInRoom().
GetAllCharactersInRoom ==
    /\ ev' = Plain("getAllCharactersInRoom", 0, "")
    /\ LET r == getAllCharactersInRoom
       IN  /\ currentRoomCharacters' = r.cache
           /\ returned' = r.characters
           /\ removed' = Spliced(currentRoomCharacters, r.cache)
    /\ sent' = <<>> /\ called' = <<>> /\ settled' = <<>> /\ ret' = NoPromise
    /\ UNCHANGED <<env, tables, rest, correlator, replyFns>>

\* The effect rebuild interval ticks; the effect builders leave `effects`.
BuildPlayerEffects(effects) ==
    /\ ev' = Event("buildPlayerEffects", Self, "", [NoMsg EXCEPT !.id = Len(effects)],
                   FALSE)
    /\ Apply(buildPlayerEffects(effects))
    /\ ret' = NoPromise /\ returned' = <<>> /\ removed' = <<>>
    /\ UNCHANGED <<env, tables, rest, nextId>>

\* A method of a remote proxy of member `target` is called: it sends its
\* query with the payload `data` and returns the promise chained to it.
RemoteMethod(method, data, target) ==
    /\ ev' = Event(method, target, "query", QueryMsg(0, MethodQuery(method), data),
                   FALSE)
    /\ sendQueryRun(MethodQuery(method), data, target, MaxMethodQueries)
    /\ queryMethod' = IF firstTimeInit THEN queryMethod
                      ELSE [queryMethod EXCEPT ![nextId] = method]
    /\ ret' = Then(method, sendQueryPromise)
    /\ UNCHANGED <<env, tables, moduleInitPhase, roomObject>>

\* ChatroomCharacter.getPermissionAccess(permission) on the proxy of `target`.
GetPermissionAccess(target) ==
    RemoteMethod("getPermissionAccess", "permission", target)

\* ChatroomCharacter.getLogEntries() on the proxy of `target`.
GetLogEntries(target) ==
    RemoteMethod("getLogEntries", "undefined", target)

\* ChatroomCharacter.setPermission(permission, edit, value) on the proxy of
\* `target`.
SetPermission(edit, value, target) ==
    RemoteMethod("setPermission", EditPermission(edit, value), target)

\* What the local module functions the self proxy calls into return.  They
\* are direct calls into the local modules and make no network round-trip.
LocalResults == {"true", "false"}

\* PlayerCharacter.setPermission(permission, edit, value).  A throw is
\* recorded as the promise state "thrown".  setPermissionSelfAccess and
\* setPermissionMinAccess answer whether the edit was made.
PlayerSetPermission(edit, value) ==
    /\ ev' = Event("PlayerCharacter.setPermission", Self, "",
                   [NoMsg EXCEPT !.data = EditPermission(edit, value)], FALSE)
    /\ IF ~TargetShapeOk(edit, value)
       THEN ret' = Promise("thrown",
                           IF edit = "self"
                           THEN "Invalid target value for self permission edit"
                           ELSE "Invalid target value for min permission edit")
       ELSE \E done \in LocalResults : ret' = Promise("resolved", done)
    /\ sent' = <<>> /\ called' = <<>> /\ settled' = <<>>
    /\ returned' = <<>> /\ removed' = <<>>
    /\ UNCHANGED <<env, tables, rest, correlator, currentRoomCharacters, replyFns>>

\* The methods of the self proxy of the form
\* return Promise.resolve(<local module function>(..., this)).
PlayerMethods == {"getPermissionAccess", "getLogEntries", "getMyAccessLevel"}

\* PlayerCharacter.<method>(...) for a method of that form, as a remote
\* proxy would run it on the local client's own member number.
PlayerMethod_ViaQuery(method) ==
    RemoteMethod(method, "undefined", Self)

\* PlayerCharacter.<method>(...) for a method of that form.
PlayerMethod(method) ==
    /\ ev' = Event("PlayerCharacter", Self, method, NoMsg, FALSE)
    /\ \E result \in LocalResults : ret' = Promise("resolved", result)
    /\ sent' = <<>> /\ called' = <<>> /\ settled' = <<>>
    /\ returned' = <<>> /\ removed' = <<>>
    /\ UNCHANGED <<env, tables, rest, correlator, currentRoomCharacters, replyFns>>

\* PlayerCharacter.conditionsGetByCategory(category); `enabled` is what
\* ConditionsGetCategoryEnabled(category) answers.
PlayerConditionsGetByCategory(enabled) ==
    /\ ev' = Event("PlayerCharacter", Self, "conditionsGetByCategory", NoMsg, enabled)
    /\ IF ~enabled
       THEN ret' = Promise("rejected", "Category is disabled")
       ELSE \E result \in LocalResults : ret' = Promise("resolved", result)
    /\ sent' = <<>> /\ called' = <<>> /\ settled' = <<>>
    /\ returned' = <<>> /\ removed' = <<>>
    /\ UNCHANGED <<env, tables, rest, correlator, currentRoomCharacters, replyFns>>

\* ModuleMessaging.unload()
Unload ==
    /\ ev' = Plain("unload", 0, "")
    /\ hiddenBeepHandlers' = {}
    /\ hiddenMessageHandlers' = {}
    /\ sent' = <<>> /\ called' = <<>> /\ settled' = <<>>
    /\ ret' = NoPromise /\ returned' = <<>> /\ removed' = <<>>
    /\ UNCHANGED <<queryHandlers, changeHandlers, env, rest, correlator,
                   currentRoomCharacters, replyFns>>

\* ------------------------------------------------------- the environment

Quiet ==
    /\ sent' = <<>> /\ called' = <<>> /\ settled' = <<>>
    /\ ret' = NoPromise /\ returned' = <<>> /\ removed' = <<>>

\* First-time initialization finishes.
FinishFirstTimeInit ==
    /\ firstTimeInit
    /\ firstTimeInit' = FALSE
    /\ ev' = Plain("finishInit", 0, "")
    /\ Quiet
    /\ UNCHANGED <<inRoom, ChatRoomCharacter, tables, rest, correlator,
                   currentRoomCharacters, replyFns>>

\* The local client enters a shared session with the members `others`.
EnterRoom(others) ==
    /\ ~inRoom
    /\ inRoom' = TRUE
    /\ ChatRoomCharacter' = {Self} \cup others
    /\ ev' = Plain("enterRoom", Self, "")
    /\ Quiet
    /\ UNCHANGED <<firstTimeInit, tables, rest, correlator, currentRoomCharacters, replyFns>>

\* The local client leaves the shared session.
LeaveRoom ==
    /\ inRoom
    /\ inRoom' = FALSE
    /\ ChatRoomCharacter' = {}
    /\ ev' = Plain("leaveRoom", Self, "")
    /\ Quiet
    /\ UNCHANGED <<firstTimeInit, tables, rest, correlator, currentRoomCharacters, replyFns>>

\* A peer joins the session the local client is in.
PeerJoin(p) ==
    /\ inRoom /\ p \notin ChatRoomCharacter
    /\ ChatRoomCharacter' = ChatRoomCharacter \cup {p}
    /\ ev' = Plain("peerJoin", p, "")
    /\ Quiet
    /\ UNCHANGED <<firstTimeInit, inRoom, tables, rest, correlator, currentRoomCharacters, replyFns>>

\* A peer leaves the session the local client is in.
PeerLeave(p) ==
    /\ inRoom /\ p \in ChatRoomCharacter
    /\ ChatRoomCharacter' = ChatRoomCharacter \ {p}
    /\ ev' = Plain("peerLeave", p, "")
    /\ Quiet
    /\ UNCHANGED <<firstTimeInit, inRoom, tables, rest, correlator, currentRoomCharacters, replyFns>>

\* enum ModuleInitPhase, in order.
ModuleInitPhase == <<"construct", "init", "load", "ready", "destroy">>

\* The module manager enters the next lifecycle phase.
PhaseAdvance ==
    /\ \E i \in 1..(Len(ModuleInitPhase) - 1) :
            /\ moduleInitPhase = ModuleInitPhase[i]
            /\ moduleInitPhase' = ModuleInitPhase[i + 1]
    /\ ev' = Plain("phase", 0, "")
    /\ Quiet
    /\ UNCHANGED <<env, tables, roomObject, queryMethod, correlator,
                   currentRoomCharacters, replyFns>>

\* The host drops the Character object of a departed member: when the
\* member joins again, a new object stands for it.
ObjectReplaced(p) ==
    /\ p \notin ChatRoomCharacter
    /\ \E o \in Objects :
            /\ o # roomObject[p]
            /\ \A i \in 1..Len(currentRoomCharacters) :
                    currentRoomCharacters[i].MemberNumber = p
                    => currentRoomCharacters[i].Character # o
            /\ roomObject' = [roomObject EXCEPT ![p] = o]
    /\ ev' = Plain("objectReplaced", p, "")
    /\ Quiet
    /\ UNCHANGED <<env, tables, moduleInitPhase, queryMethod, correlator,
                   currentRoomCharacters, replyFns>>

\* The environment's steps.
EnvStep ==
    \/ FinishFirstTimeInit
    \/ \E others \in SUBSET Peers : EnterRoom(others)
    \/ LeaveRoom
    \/ \E p \in Peers : PeerJoin(p)
    \/ \E p \in Peers : PeerLeave(p)

\* Every operation of the module, interleaved.  Queries go to one target
\* here; SpecQ sends them to every peer.
Next ==
    \/ SendQuery("qKnown", "R1", 3, MaxQueriesAll)
    \/ \E id \in Ids : TimerFire(id)
    \/ \E data \in AnswerInputsAll \cup OtherInputs : ChatRoomMessage(data, FALSE)
    \/ \E data \in QueryInputs, access \in BOOLEAN :
            \* the access check is reached by well-formed queries only
            /\ QueryValid(data.message) \/ (data.Sender = 2 /\ ~access)
            /\ ChatRoomMessage(data, access)
    \/ \E data \in BeepInputs : ServerAccountBeep(data)
    \/ \E fn \in replyFns, ok \in BOOLEAN, keep \in BOOLEAN :
            HandlerReply(fn, ok, "R1", keep)
    \/ \E m \in DirectMessages, Target \in {Null, 2} :
            CallSendHiddenMessage(m[1], m[2], Target)
    \/ \E asLeashBeep \in BOOLEAN : CallSendHiddenBeep("beepKnown", NoMsg, 2, asLeashBeep)
    \/ EnvStep

Spec == Init /\ [][Next]_vars

\* The querying side alone: queries, their timers and the answers to them.
NextQ ==
    \/ \E target \in Peers : SendQuery("qKnown", "R1", target, MaxQueries)
    \/ \E id \in Ids : TimerFire(id)
    \/ \E data \in AnswerInputs : ChatRoomMessage(data, FALSE)
    \/ FinishFirstTimeInit
    \/ EnterRoom(Peers)
    \/ LeaveRoom

SpecQ == Init /\ [][NextQ]_vars

\* The querying side with its timers: the host runs the callback of a timer
\* that stays armed.
SpecQFair == SpecQ /\ \A id \in Ids : WF_vars(TimerFire(id))

\* The change notification: the module lifecycle runs from its first phase.
InitN == InitBase /\ moduleInitPhase = ModuleInitPhase[1]

NextN ==
    \/ NotifyOfChange
    \/ PhaseAdvance
    \/ GetPlayerCharacter
    \/ \E data \in OtherInputs : ChatRoomMessage(data, FALSE)
    \/ EnvStep

SpecN == InitN /\ [][NextN]_vars

\* The registry and the effect rebuild: members leave and join again as the
\* same or as a new Character object.
InitR == Init /\ ~firstTimeInit

\* The outputs of the effect builders.
BuiltEffects == {<<>>, <<"e1">>, <<"e1", "e2">>, <<"e2", "e1">>}

NextR ==
    \/ \E memberNumber \in Members : GetChatroomCharacter(memberNumber)
    \/ GetPlayerCharacter
    \/ GetAllCharactersInRoom
    \/ \E effects \in BuiltEffects : BuildPlayerEffects(effects)
    \/ \E p \in Peers : ObjectReplaced(p)
    \/ \E others \in SUBSET Peers : EnterRoom(others)
    \/ LeaveRoom
    \/ \E p \in Peers : PeerJoin(p)
    \/ \E p \in Peers : PeerLeave(p)

SpecR == InitR /\ [][NextR]_vars

\* The answers a peer may give to the queries of the proxy methods.
MethodAnswerInputs ==
    {WellFormedHidden(3, "queryAnswer", AnswerMsg(i, ok, v)) :
        i \in (1..MaxMethodQueries) \cup {ForeignId}, ok \in BOOLEAN, v \in Values}

\* The values setPermission is called with.
EditValues == {"true", "3"}

\* The proxy methods: the remote variant's queries, their timers and the
\* answers to them, and the self variant's setPermission.
NextP ==
    \/ GetPermissionAccess(3)
    \/ GetLogEntries(3)
    \/ \E edit \in {"self", "min"}, value \in EditValues : SetPermission(edit, value, 3)
    \/ \E edit \in {"self", "min"}, value \in EditValues : PlayerSetPermission(edit, value)
    \/ \E id \in Ids : TimerFire(id)
    \/ \E data \in MethodAnswerInputs : ChatRoomMessage(data, FALSE)
    \/ FinishFirstTimeInit
    \/ EnterRoom(Peers)
    \/ LeaveRoom

SpecP == Init /\ [][NextP]_vars

\* The querying side with the unload of the module.
NextU ==
    \/ NextQ
    \/ Unload

SpecU == Init /\ [][NextU]_vars

\* The self proxy's methods, called in every initialization and session
\* state and while queries of other callers are pending.
NextS ==
    \/ \E method \in PlayerMethods : PlayerMethod(method)
    \/ \E enabled \in BOOLEAN : PlayerConditionsGetByCategory(enabled)
    \/ \E edit \in {"self", "min"}, value \in EditValues : PlayerSetPermission(edit, value)
    \/ NextQ

SpecS == Init /\ [][NextS]_vars

\* ------------------------------------------------------------- the claims

\* What of the correlator belongs to query j is as it was.
QueryUntouched(j) ==
    /\ j \in DOMAIN pendingQueries'
    /\ pendingQueries'[j] = pendingQueries[j]
    /\ timers'[j] = timers[j]
    /\ promises'[j] = promises[j]
    /\ settleCalls'[j] = settleCalls[j]

\* C1: when an answer with ok = true and data = R reaches the client for a
\* query whose promise is still pending (neither answered nor timed out),
\* resolve is called with exactly R and the promise is resolved with R.
C1_AnswerResolvesWithData ==
    [][\A d \in AnswerInputs :
          (/\ AnswerValid(d.message) /\ d.message.ok
           /\ d.message.id \in Ids
           /\ promises[d.message.id].st = "pending"
           /\ ChatRoomMessage(d, FALSE))
          => /\ settled' = <<Settle(d.message.id, "resolve", d.message.data)>>
             /\ promises'[d.message.id] = Promise("resolved", d.message.data)]_vars

\* A query was just resolved with the payload R1 of the answer.
C1_Witness ==
    /\ ev.op = "ChatRoomMessage" /\ ev.tag = "queryAnswer"
    /\ ev.message.ok /\ ev.message.data = "R1" /\ ev.message.id \in Ids
    /\ settled = <<Settle(ev.message.id, "resolve", "R1")>>
    /\ promises[ev.message.id] = Promise("resolved", "R1")

\* C2: sendQuery called during first-time initialization returns a rejected
\* promise and does nothing else: nothing is sent, the pending-query map,
\* the timers and the promises of other queries are as before.
C2_RejectedDuringInit ==
    [][\A t \in Peers :
          (firstTimeInit /\ SendQuery("qKnown", "R1", t, MaxQueries))
          => /\ ret'.st = "rejected"
             /\ sent' = <<>> /\ called' = <<>> /\ settled' = <<>>
             /\ UNCHANGED <<pendingQueries, timers, promises, nextId, settleCalls>>]_vars

\* sendQuery was just called during first-time initialization.
C2_Witness ==
    /\ firstTimeInit /\ ev.op = "sendQuery"
    /\ ret = Promise("rejected", "Unavailable during init")
    /\ DOMAIN pendingQueries = {}

\* C3: when the timer of a query fires while its entry is in the map, the
\* entry is removed, the promise is rejected with "Timed out", and every
\* other pending entry, its timer and its promise are untouched.
C3_TimeoutRejects ==
    [][\A id \in Ids :
          (id \in DOMAIN pendingQueries /\ TimerFire(id))
          => /\ id \notin DOMAIN pendingQueries'
             /\ settled' = <<Settle(id, "reject", "Timed out")>>
             /\ promises'[id] = Promise("rejected", "Timed out")
             /\ \A j \in DOMAIN pendingQueries \ {id} : QueryUntouched(j)]_vars

\* A query just timed out while another one is still pending.
C3_Witness ==
    /\ ev.op = "timer"
    /\ promises[ev.message.id] = Promise("rejected", "Timed out")
    /\ ev.message.id \notin DOMAIN pendingQueries
    /\ DOMAIN pendingQueries # {}

\* C4: resolve or reject is called at most once for every query, and a valid
\* answer for an id whose promise is not pending (timed out, answered
\* before, or never issued) settles nothing and leaves the map as it is.
C4_SettledAtMostOnce ==
    /\ [](\A id \in Ids : settleCalls[id] <= 1)
    /\ [][\A d \in AnswerInputs :
            (/\ AnswerValid(d.message)
             /\ (d.message.id \in Ids => promises[d.message.id].st # "pending")
             /\ ChatRoomMessage(d, FALSE))
            => /\ settled' = <<>>
               /\ UNCHANGED <<pendingQueries, timers, promises, settleCalls>>]_vars

\* A valid answer just arrived for a query that had timed out.
C4_Witness ==
    /\ ev.op = "ChatRoomMessage" /\ ev.tag = "queryAnswer"
    /\ AnswerValid(ev.message) /\ ev.message.id \in Ids
    /\ promises[ev.message.id] = Promise("rejected", "Timed out")
    /\ settleCalls[ev.message.id] = 1
    /\ settled = <<>>

\* C5: while two queries with different ids are pending, an answer for one
\* or the timer of one leaves the entry, the timer and the promise of the
\* other as they were.
C5_NoInterference ==
    [][\A i, j \in Ids :
          (/\ i # j
           /\ i \in DOMAIN pendingQueries /\ j \in DOMAIN pendingQueries
           /\ \/ TimerFire(i)
              \/ \E d \in AnswerInputs :
                    /\ d.message.idT = "string" /\ d.message.id = i
                    /\ ChatRoomMessage(d, FALSE))
          => QueryUntouched(j)]_vars

\* The query issued second was just answered while the one issued first is
\* still pending with its timer armed.
C5_Witness ==
    /\ ev.op = "ChatRoomMessage" /\ ev.tag = "queryAnswer" /\ ev.message.id = 2
    /\ promises[2].st = "resolved"
    /\ 1 \in DOMAIN pendingQueries /\ timers[1] = "armed"
    /\ promises[1].st = "pending"

\* The step is a run of operation `op` on an envelope tagged `tag`.
StepOf(op, tag) == ev'.op = op /\ ev'.tag = tag

\* The step sent exactly one answer refusing query `id`.
RefusalSent(id) ==
    /\ Len(sent') = 1
    /\ sent'[1].call = "ChatRoomChat" /\ sent'[1].type = "queryAnswer"
    /\ sent'[1].message.isObject
    /\ sent'[1].message.idT = "string" /\ sent'[1].message.id = id
    /\ sent'[1].message.okT = "boolean" /\ sent'[1].message.ok = FALSE

\* No query handler was invoked by the step.
NoQueryHandlerCalled ==
    /\ \A i \in 1..Len(called') : called'[i].table # "query"
    /\ replyFns' = replyFns

ModuleStateUnchanged ==
    UNCHANGED <<env, tables, rest, correlator, currentRoomCharacters, replyFns>>

\* C8: on the hidden-message channel and on the beep channel, an envelope
\* whose sender is the local client itself invokes no handler and changes
\* no state.
C8_SelfSenderIgnored ==
    [][/\ \A d \in OtherInputs :
            (d.SenderT = "number" /\ d.Sender = Self /\ ChatRoomMessage(d, FALSE))
            => (called' = <<>> /\ sent' = <<>> /\ settled' = <<>>
                /\ ModuleStateUnchanged)
       /\ \A d \in BeepInputs :
            (d.MemberNumber = Self /\ ServerAccountBeep(d))
            => (called' = <<>> /\ sent' = <<>> /\ settled' = <<>>
                /\ ModuleStateUnchanged)]_vars

\* C9: on either channel, an envelope whose tag is a string that is not in
\* that channel's own handler table invokes no handler, sends nothing,
\* settles nothing and changes no state, also when the tag is in the other
\* channel's table.
C9_UnregisteredTagDropped ==
    [][/\ (ev'.op = "ChatRoomMessage" /\ ev'.tag \notin hiddenMessageHandlers)
          => \A d \in NonAnswerInputs, a \in BOOLEAN :
            (/\ d.typeT = "string" /\ d.type \notin hiddenMessageHandlers
             /\ ChatRoomMessage(d, a))
            => (called' = <<>> /\ sent' = <<>> /\ settled' = <<>>
                /\ ModuleStateUnchanged)
       /\ (ev'.op = "ServerAccountBeep" /\ ev'.tag \notin hiddenBeepHandlers)
          => \A d \in BeepInputs :
            (/\ d.typeT = "string" /\ d.type \notin hiddenBeepHandlers
             /\ ServerAccountBeep(d))
            => (called' = <<>> /\ sent' = <<>> /\ settled' = <<>>
                /\ ModuleStateUnchanged)]_vars

\* A peer's hidden message tagged with a tag only the beep table knows was
\* just dropped after initialization.
C9_Witness ==
    /\ ev.op = "ChatRoomMessage" /\ ev.tag = "beepKnown" /\ ev.who \in Peers
    /\ ev.tag \in hiddenBeepHandlers /\ ev.tag \notin hiddenMessageHandlers
    /\ ~firstTimeInit /\ inRoom
    /\ called = <<>> /\ sent = <<>>

\* C10: sendHiddenMessage sends nothing while first-time initialization is
\* unfinished or the local client is in no session, and otherwise exactly
\* one envelope with the given type, message and target; sendHiddenBeep
\* sends exactly one envelope in every state.
C10_SendGuards ==
    [][/\ \A m \in DirectMessages, Target \in {Null, 2} :
            CallSendHiddenMessage(m[1], m[2], Target)
            => IF firstTimeInit \/ ~inRoom
               THEN sent' = <<>>
               ELSE /\ Len(sent') = 1
                    /\ sent'[1].call = "ChatRoomChat"
                    /\ sent'[1].Type = "Hidden" /\ sent'[1].Content = "BCXMsg"
                    /\ sent'[1].type = m[1] /\ sent'[1].message = m[2]
                    /\ sent'[1].Target = Target
       /\ \A asLeashBeep \in BOOLEAN :
            CallSendHiddenBeep("beepKnown", NoMsg, 2, asLeashBeep)
            => /\ Len(sent') = 1
               /\ sent'[1].call = "AccountBeep"
               /\ sent'[1].type = "beepKnown" /\ sent'[1].message = NoMsg
               /\ sent'[1].Target = 2]_vars

\* sendHiddenMessage was just called after initialization outside a session
\* and sent nothing.
C10_Witness ==
    /\ ev.op = "sendHiddenMessage" /\ ~firstTimeInit /\ ~inRoom
    /\ sent = <<>>

\* C11: notifyOfChange sends nothing, invokes nothing and changes nothing
\* unless the lifecycle phase is ready; in the ready phase it issues the
\* broadcast of "somethingChanged" (sent only in a session after first-time
\* initialization) and then invokes every change subscriber once, in
\* registration order, with the local client's member id, also when the
\* broadcast was not sent.
C11_NotifyOfChange ==
    [][NotifyOfChange =>
        IF moduleInitPhase # "ready"
        THEN /\ sent' = <<>> /\ called' = <<>> /\ settled' = <<>>
             /\ ModuleStateUnchanged
        ELSE /\ sent' = IF inRoom /\ ~firstTimeInit
                        THEN <<ChatRoomChat("somethingChanged", NoMsg, Null)>>
                        ELSE <<>>
             /\ Len(called') = Len(changeHandlers)
             /\ \A i \in 1..Len(changeHandlers) :
                    called'[i] =
                        [Call("change", changeHandlers[i], Self, NoChar, NoReply,
                              "undefined") EXCEPT !.after = Len(sent')]]_vars

\* notifyOfChange just ran in the ready phase outside a session: nothing
\* was sent and both subscribers were invoked with the local client's id.
C11_Witness ==
    /\ ev.op = "notifyOfChange" /\ moduleInitPhase = "ready" /\ ~inRoom
    /\ sent = <<>>
    /\ Len(called) = 2
    /\ called[1].tag = "subA" /\ called[2].tag = "subB"
    /\ called[1].sender = Self /\ called[2].sender = Self

Cached(cache, n) ==
    \E i \in 1..Len(cache) : cache[i].MemberNumber = n

\* C13: a getChatroomCharacter call for any member id, made while a peer is
\* gone from the session, leaves no proxy of that peer in the registry, and
\* returns null when it asks for the departed peer; every self proxy the
\* registry held before the call is still in it afterwards.
C13_DepartedEvicted ==
    [][\A n \in Members :
        GetChatroomCharacter(n) =>
            /\ \A p \in Peers :
                  p \notin ChatRoomCharacter =>
                      /\ ~Cached(currentRoomCharacters', p)
                      /\ n = p => returned' = <<>>
            /\ \A i \in 1..Len(currentRoomCharacters) :
                  currentRoomCharacters[i].isPlayer =>
                      \E j \in 1..Len(currentRoomCharacters') :
                          currentRoomCharacters'[j] = currentRoomCharacters[i]]_vars

\* Peer 2 has left the session the local client is still in, and a lookup
\* of peer 3 spliced the proxy of peer 2 out and kept the self proxy.
C13_Witness ==
    /\ ev.op = "getChatroomCharacter" /\ ev.who = 3
    /\ inRoom /\ 2 \notin ChatRoomCharacter
    /\ removed = <<Proxy(2, FALSE, roomObject[2])>>
    /\ returned = <<Proxy(3, FALSE, roomObject[3])>>
    /\ \E i \in 1..Len(currentRoomCharacters) : currentRoomCharacters[i].isPlayer
    /\ ~Cached(currentRoomCharacters, 2)

\* No two entries of the registry are proxies of the same member.
OneProxyPerMember ==
    \A i, j \in 1..Len(currentRoomCharacters) :
        currentRoomCharacters[i].MemberNumber = currentRoomCharacters[j].MemberNumber
        => i = j

\* A self proxy that is in the registry is in it after the step as well.
PlayerProxyStays ==
    \A i \in 1..Len(currentRoomCharacters) :
        currentRoomCharacters[i].isPlayer =>
            \E j \in 1..Len(currentRoomCharacters') :
                /\ currentRoomCharacters'[j].isPlayer
                /\ currentRoomCharacters'[j].MemberNumber =
                       currentRoomCharacters[i].MemberNumber
                /\ currentRoomCharacters'[j].Character =
                       currentRoomCharacters[i].Character

\* C14: whatever lookups, joins, leaves and rejoins have happened, the
\* registry holds at most one proxy per member id, and no step takes a self
\* proxy out of the registry.
C14_OneProxyPerMember ==
    []OneProxyPerMember /\ [][PlayerProxyStays]_vars

\* The registry holds the self proxy and one proxy for each peer, peer 2
\* having left and come back as a new Character object.
C14_Witness ==
    /\ Len(currentRoomCharacters) = 3
    /\ roomObject[2] = 1
    /\ \E i \in 1..3 : currentRoomCharacters[i] = Proxy(2, FALSE, 1)
    /\ \E i \in 1..3 : currentRoomCharacters[i].isPlayer
    /\ Cached(currentRoomCharacters, 3)

\* C15: outside a session getAllCharactersInRoom returns the one-element
\* list holding the self proxy; in a session it returns one proxy, held by
\* the registry and wrapping the member's present Character object, for
\* each current member: none missing, none twice, none of a departed member.
C15_AllCharactersInRoom ==
    [][GetAllCharactersInRoom =>
        /\ \A i \in 1..Len(returned') :
              /\ Cached(currentRoomCharacters', returned'[i].MemberNumber)
              /\ FindCharacter(currentRoomCharacters', returned'[i].MemberNumber)
                     = returned'[i]
              /\ returned'[i].Character = roomObject[returned'[i].MemberNumber]
        /\ IF ~inRoom
           THEN /\ Len(returned') = 1
                /\ returned'[1].isPlayer /\ returned'[1].MemberNumber = Self
           ELSE /\ Len(returned') = Cardinality(ChatRoomCharacter)
                /\ {returned'[i].MemberNumber : i \in 1..Len(returned')}
                       = ChatRoomCharacter]_vars

\* In a session with peer 3, peer 2 having left: the call returned the self
\* proxy and the proxy of peer 3, and spliced the proxy of peer 2 out.
C15_Witness ==
    /\ ev.op = "getAllCharactersInRoom"
    /\ inRoom /\ ChatRoomCharacter = {Self, 3}
    /\ Len(returned) = 2
    /\ returned[1].isPlayer /\ returned[2] = Proxy(3, FALSE, roomObject[3])
    /\ removed = <<Proxy(2, FALSE, roomObject[2])>>

\* getPlayerCharacter().Effects on the registry `cache`.
PlayerEffects(cache) ==
    getPlayerCharacterFrom(cache).character.Effects

\* The calls of the last event to `tag`.
CallsTo(calls, tag) ==
    SelectSeq(calls, LAMBDA c : c.tag = tag)

\* C16: a tick of the effect rebuild whose built record equals, order
\* included, the record installed on the self proxy installs nothing and
\* calls neither CharacterRefresh nor announceSelf; a tick whose record
\* differs installs it and calls each of the two exactly once.  Either way
\* the installed record is the built one afterwards, so that the next tick
\* with the same output refreshes nothing.
C16_EffectRebuild ==
    [][\A effects \in BuiltEffects :
        BuildPlayerEffects(effects) =>
            /\ PlayerEffects(currentRoomCharacters') = effects
            /\ sent' = <<>>
            /\ IF effects = PlayerEffects(currentRoomCharacters)
               THEN /\ called' = <<>>
                    /\ currentRoomCharacters' =
                           getPlayerCharacterFrom(currentRoomCharacters).cache
               ELSE /\ Len(called') = 2
                    /\ Len(CallsTo(called', "CharacterRefresh")) = 1
                    /\ Len(CallsTo(called', "announceSelf")) = 1]_vars

\* A tick that built the record already installed: two markers are
\* installed and the tick called nothing.
C16_Witness ==
    /\ ev.op = "buildPlayerEffects"
    /\ PlayerEffects(currentRoomCharacters) = <<"e1", "e2">>
    /\ called = <<>>

\* The promise the proxy method that issued query `id` returned.
MethodPromise(id) ==
    Then(queryMethod[id], promises[id])

\* C17: when the pending query of a remote proxy method is answered with
\* ok = true and data that fails the method's shape check, the promise the
\* method returned is rejected, not resolved.
C17_BadDataRejects ==
    [][StepOf("ChatRoomMessage", "queryAnswer") => \A d \in MethodAnswerInputs :
            (/\ ChatRoomMessage(d, FALSE)
             /\ d.message.id \in DOMAIN pendingQueries
             /\ queryMethod[d.message.id] \in Methods
             /\ d.message.ok
             /\ ~ShapeOk(queryMethod[d.message.id], d.message.data))
            => MethodPromise(d.message.id)'.st = "rejected"]_vars

\* C18: setPermission called with a value of the wrong shape for its axis,
\* on a remote proxy or on the self proxy, is signaled by the call itself
\* (a throw or a rejected promise), sends nothing and creates no pending
\* query.
C18_WrongShapeNotSent ==
    [][\A edit \in {"self", "min"}, value \in EditValues :
            ~TargetShapeOk(edit, value) =>
                /\ SetPermission(edit, value, 3) =>
                      /\ ret'.st \in {"thrown", "rejected"}
                      /\ sent' = <<>>
                      /\ pendingQueries' = pendingQueries
                /\ PlayerSetPermission(edit, value) =>
                      /\ ret'.st \in {"thrown", "rejected"}
                      /\ sent' = <<>>
                      /\ pendingQueries' = pendingQueries]_vars

\* The step is the arrival of a valid answer for the pending query `id`.
AnswerAccepted(id) ==
    /\ StepOf("ChatRoomMessage", "queryAnswer")
    /\ id \in DOMAIN pendingQueries
    /\ \E d \in AnswerInputs :
          /\ d.message.id = id /\ AnswerValid(d.message)
          /\ ChatRoomMessage(d, FALSE)

\* C19: every pending entry holds a timer of its own, which is armed; the
\* step that accepts an answer for an id clears the timer of that id; and
\* once the timer of an id is cleared it stays cleared, its callback does
\* not run, nothing is settled for the id any more, and its promise stays
\* as the answer settled it.
C19_TimerCancelled ==
    /\ [](\A i \in DOMAIN pendingQueries :
              /\ timers[pendingQueries[i].timeout] = "armed"
              /\ \A j \in DOMAIN pendingQueries :
                     pendingQueries[i].timeout = pendingQueries[j].timeout => i = j)
    /\ [][\A id \in Ids :
            /\ AnswerAccepted(id) => timers'[id] = "cleared"
            /\ timers[id] = "cleared" =>
                  /\ timers'[id] = "cleared"
                  /\ ~TimerFire(id)
                  /\ \A k \in 1..Len(settled') : settled'[k].id # id
                  /\ promises'[id] = promises[id]
                  /\ promises[id] # Promise("rejected", "Timed out")]_vars

\* Query 1 was settled by an answer and its timer cleared; later the timer
\* of query 2 fired, and query 1 is as the answer left it.
C19_Witness ==
    /\ ev.op = "timer" /\ ev.message.id = 2
    /\ timers[1] = "cleared" /\ timers[2] = "fired"
    /\ promises[1] = Promise("resolved", "R1")
    /\ settleCalls[1] = 1

\* C20: the map holds an entry for an id exactly when the promise of the
\* query with that id, which exists only for a query sent after
\* initialization, is pending.  An entry appears only in the sendQuery
\* call that issues its id, and every such call after initialization makes
\* one; it disappears in the step that accepts an answer for it or in which
\* its timer fires, and only then; an id that was issued and is not in the
\* map is never in it again.
C20_PendingLifecycle ==
    /\ [](\A id \in Ids : id \in DOMAIN pendingQueries <=> promises[id].st = "pending")
    /\ [](DOMAIN pendingQueries \subseteq 1..(nextId - 1))
    /\ [][/\ (ev'.op = "sendQuery" /\ ~firstTimeInit)
                => /\ nextId \notin DOMAIN pendingQueries
                   /\ DOMAIN pendingQueries' = DOMAIN pendingQueries \cup {nextId}
          /\ \A id \in Ids :
                /\ (id \notin DOMAIN pendingQueries /\ id \in DOMAIN pendingQueries')
                      => /\ ev'.op = "sendQuery" /\ ~firstTimeInit
                         /\ id = nextId /\ nextId' = nextId + 1
                         /\ promises[id].st = "none"
                /\ (id \in DOMAIN pendingQueries /\ id \notin DOMAIN pendingQueries')
                      => AnswerAccepted(id) \/ TimerFire(id)
                /\ (id \in DOMAIN pendingQueries /\ (AnswerAccepted(id) \/ TimerFire(id)))
                      => id \notin DOMAIN pendingQueries'
                /\ (id < nextId /\ id \notin DOMAIN pendingQueries)
                      => id \notin DOMAIN pendingQueries']_vars

\* Query 1 was answered and is gone from the map, query 2 was sent after it
\* and is pending, and a further answer for query 1 has just arrived.
C20_Witness ==
    /\ ev.op = "ChatRoomMessage" /\ ev.tag = "queryAnswer" /\ ev.message.id = 1
    /\ DOMAIN pendingQueries = {2}
    /\ promises[1].st = "resolved" /\ promises[2].st = "pending"
    /\ settled = <<>>
    /\ nextId = 3

\* The promise of query `id` is resolved or rejected.
Settled(id) ==
    promises[id].st \in {"resolved", "rejected"}

\* C21: with timers that fire, every query sendQuery issued is settled and
\* its entry removed at some later point, whether or not its envelope was
\* sent and whether or not an answer comes.
C21_EveryQuerySettles ==
    \A id \in Ids :
        (id \in DOMAIN pendingQueries)
            ~> (Settled(id) /\ id \notin DOMAIN pendingQueries)

\* Outside a session, where no envelope is sent and no answer arrives, the
\* last of the issued queries has timed out and the map is empty.
C21_Witness ==
    /\ ev.op = "timer"
    /\ ~inRoom
    /\ nextId = MaxQueries + 1
    /\ \A id \in Ids : promises[id] = Promise("rejected", "Timed out")
    /\ DOMAIN pendingQueries = {}

\* C22: a well-formed answer that carries the id of a pending query and
\* comes from a session member other than the query's target settles the
\* query (resolve on ok = true, reject otherwise, with the answer's data),
\* removes its entry and clears its timer.
C22_AnswerFromOtherMember ==
    [][StepOf("ChatRoomMessage", "queryAnswer") => \A d \in AnswerInputsAll :
            (/\ ChatRoomMessage(d, FALSE)
             /\ AnswerValid(d.message)
             /\ d.message.id \in DOMAIN pendingQueries
             /\ d.Sender \in ChatRoomCharacter
             /\ pendingQueries[d.message.id].target # d.Sender)
            => /\ settled' = <<Settle(d.message.id,
                                      IF d.message.ok THEN "resolve" ELSE "reject",
                                      d.message.data)>>
               /\ promises'[d.message.id] =
                      Promise(IF d.message.ok THEN "resolved" ELSE "rejected",
                              d.message.data)
               /\ d.message.id \notin DOMAIN pendingQueries'
               /\ timers'[d.message.id] = "cleared"]_vars

\* Member 2, in the session together with member 3 to whom every query of
\* this specification is addressed, has answered query 1 and resolved it.
C22_Witness ==
    /\ ev.op = "ChatRoomMessage" /\ ev.tag = "queryAnswer" /\ ev.who = 2
    /\ {2, 3} \subseteq ChatRoomCharacter
    /\ ev.message.id = 1 /\ ev.message.ok
    /\ settled = <<Settle(1, "resolve", "R1")>>
    /\ promises[1] = Promise("resolved", "R1")
    /\ 1 \notin DOMAIN pendingQueries

\* What the correlator holds, the reply closures and the registry are as
\* they were, and the step sent nothing, settled nothing and invoked nothing
\* but the table handler that made the structural check.
DroppedByHandler ==
    /\ sent' = <<>> /\ settled' = <<>>
    /\ \A i \in 1..Len(called') : called'[i].table = "hidden"
    /\ UNCHANGED <<correlator, replyFns, currentRoomCharacters>>

\* C23: an inbound query whose message is no object, or whose id or query
\* tag is no string, and an inbound answer whose message is no object, or
\* whose id is no string or whose ok is no boolean, sends no reply, runs no
\* query handler, and leaves the pending map, the timers and the promises
\* as they were.
C23_MalformedDropped ==
    /\ [][StepOf("ChatRoomMessage", "query") =>
            \A d \in QueryInputs, access \in BOOLEAN :
                (ChatRoomMessage(d, access) /\ ~QueryValid(d.message))
                => DroppedByHandler]_vars
    /\ [][StepOf("ChatRoomMessage", "queryAnswer") =>
            \A d \in AnswerInputsAll :
                (ChatRoomMessage(d, FALSE) /\ ~AnswerValid(d.message))
                => DroppedByHandler]_vars

\* An answer whose id is a number has just been handed to the answer
\* handler while query 1 was pending in a session after initialization:
\* the query is still pending.
C23_Witness ==
    /\ ev.op = "ChatRoomMessage" /\ ev.tag = "queryAnswer"
    /\ ev.message.isObject /\ ev.message.idT = "number" /\ ev.message.id = 1
    /\ ~firstTimeInit /\ inRoom
    /\ called = <<Call("hidden", "queryAnswer", 2, NoChar, NoReply, "undefined")>>
    /\ DOMAIN pendingQueries = {1} /\ timers[1] = "armed"
    /\ promises[1] = Promise("pending", "undefined")
    /\ settled = <<>> /\ sent = <<>>

\* The sendQuery call of the step registered query nextId for `target`,
\* with an armed timer and a pending promise.
Registered(target) ==
    /\ nextId \notin DOMAIN pendingQueries
    /\ DOMAIN pendingQueries' = DOMAIN pendingQueries \cup {nextId}
    /\ pendingQueries'[nextId] = PendingQuery(target, nextId)
    /\ timers'[nextId] = "armed"
    /\ promises'[nextId] = Promise("pending", "undefined")
    /\ ret' = Promise("pending", "undefined")

\* The one query envelope {id, query, data} of query nextId to `target`.
QueryEnvelope(target) ==
    <<ChatRoomChat("query", QueryMsg(nextId, "qKnown", "R1"), target)>>

\* C24 as stated: every sendQuery call after first-time initialization
\* registers a pending query and emits exactly one query envelope to the
\* target with the id of the entry.
C24_AlwaysEmits ==
    [][\A target \in Peers :
          (SendQuery("qKnown", "R1", target, MaxQueries) /\ ~firstTimeInit)
          => /\ Registered(target)
             /\ sent' = QueryEnvelope(target)]_vars

\* C24, amended: every sendQuery call after first-time initialization
\* registers a pending query; in a session it emits exactly one query
\* envelope to the target with the id of the entry, outside a session it
\* emits nothing.
C24_EmitsInSession ==
    [][\A target \in Peers :
          (SendQuery("qKnown", "R1", target, MaxQueries) /\ ~firstTimeInit)
          => /\ Registered(target)
             /\ sent' = IF inRoom THEN QueryEnvelope(target) ELSE <<>>]_vars

\* The second query was just sent to member 3 in a session: entry 2 is
\* registered for member 3 and the one envelope sent carries id 2.
C24_Witness ==
    /\ ev.op = "sendQuery" /\ ev.who = 3
    /\ inRoom /\ ~firstTimeInit
    /\ 2 \in DOMAIN pendingQueries /\ pendingQueries[2].target = 3
    /\ nextId = 3
    /\ sent = <<ChatRoomChat("query", QueryMsg(2, "qKnown", "R1"), 3)>>

\* Every answer envelope among the ServerSend calls of the step is addressed
\* to `sender` alone and carries `id`.
AnswersOnlyTo(sender, id) ==
    \A i \in 1..Len(sent') :
        sent'[i].type = "queryAnswer" =>
            /\ sent'[i].Target = sender
            /\ sent'[i].message.id = id

\* C25: every answer the answering side emits for an inbound query, by the
\* failed access check, by the missing-handler default or by the reply
\* closure of a handler, is addressed to the sender of that query alone and
\* carries the id of that query.
C25_AnswersToSender ==
    /\ [][StepOf("ChatRoomMessage", "query") =>
            \A d \in QueryInputs, access \in BOOLEAN :
                (ChatRoomMessage(d, access) /\ QueryValid(d.message))
                => AnswersOnlyTo(d.Sender, d.message.id)]_vars
    /\ [][\A fn \in replyFns, ok \in BOOLEAN, keep \in BOOLEAN :
            HandlerReply(fn, ok, "R1", keep) => AnswersOnlyTo(fn.sender, fn.id)]_vars

\* C27: the state ModuleMessaging.unload() leaves has an empty
\* hidden-message handler table, beep handler table, query handler table,
\* change-subscriber list and pending-query map, and no armed timer.
C27_UnloadClears ==
    [][Unload =>
        /\ hiddenMessageHandlers' = {}
        /\ hiddenBeepHandlers' = {}
        /\ queryHandlers' = {}
        /\ changeHandlers' = <<>>
        /\ DOMAIN pendingQueries' = {}
        /\ \A id \in Ids : timers'[id] # "armed"]_vars

\* The step left the messaging layer alone, and its call threw or returned
\* a promise that is settled.
NoRoundTrip ==
    /\ sent' = <<>>
    /\ UNCHANGED <<pendingQueries, timers, promises, nextId, settleCalls>>
    /\ ret'.st \in {"resolved", "rejected", "thrown"}

Stale(c) ==
    /\ ~c.isPlayer
    /\ \/ c.MemberNumber \notin ChatRoomCharacter
       \/ c.Character # roomObject[c.MemberNumber]

\* The registry `cache` without its stale proxies.
WithoutStale(cache) ==
    SelectSeq(cache, LAMBDA c : ~Stale(c))

\* A lookup of member n that misses in the registry `kept`, which it leaves
\* behind: it constructs, caches and returns the self variant exactly for
\* the local client's id and the remote variant for a current session
\* member, and otherwise returns null and caches nothing.
MissOn(kept, n) ==
    IF n = Self
    THEN /\ returned' = <<Proxy(Self, TRUE, roomObject[Self])>>
         /\ currentRoomCharacters' = Append(kept, returned'[1])
    ELSE IF n \in ChatRoomCharacter
    THEN /\ returned' = <<Proxy(n, FALSE, roomObject[n])>>
         /\ currentRoomCharacters' = Append(kept, returned'[1])
    ELSE /\ returned' = <<>>
         /\ currentRoomCharacters' = kept

\* C26 as stated: getChatroomCharacter(id) returns the cached proxy
\* whenever one is cached for id, leaving the registry as it is, and evicts
\* stale proxies only on a miss, before it constructs a proxy.
C26_EvictsOnMissOnly ==
    [][\A n \in Members :
        GetChatroomCharacter(n) =>
            IF Cached(currentRoomCharacters, n)
            THEN /\ returned' = <<FindCharacter(currentRoomCharacters, n)>>
                 /\ currentRoomCharacters' = currentRoomCharacters
            ELSE MissOn(WithoutStale(currentRoomCharacters), n)]_vars

\* C26, amended: getChatroomCharacter(id) first evicts the stale proxies,
\* on every call; it then returns the proxy cached for id if one is left,
\* and otherwise constructs one or returns null as on a miss.
C26_EvictsFirst ==
    [][\A n \in Members :
        GetChatroomCharacter(n) =>
            LET kept == WithoutStale(currentRoomCharacters)
            IN  IF Cached(kept, n)
                THEN /\ returned' = <<FindCharacter(kept, n)>>
                     /\ currentRoomCharacters' = kept
                ELSE MissOn(kept, n)]_vars

\* Peer 2 was cached and has left the session the local client is in: the
\* lookup of peer 2 spliced its proxy out and returned null.
C26_Witness ==
    /\ ev.op = "getChatroomCharacter" /\ ev.who = 2
    /\ inRoom /\ 2 \notin ChatRoomCharacter
    /\ Len(removed) = 1 /\ removed[1].MemberNumber = 2
    /\ returned = <<>>
    /\ ~Cached(currentRoomCharacters, 2)

====
